---- MODULE Spec2Model ----
(***************************************************************************)
(* The contact-form endpoint POST of arctic-studio/tableOfThree            *)
(* (src/unnamed/part_000).  One behaviour is one invocation of the handler *)
(* on one request, under one process environment, against one mail        *)
(* provider.  The handler suspends at its three awaits (request.text(),    *)
(* fetch(), mailjetResponse.json()); the code between two awaits runs      *)
(* atomically and is one action.                                           *)
(*                                                                         *)
(* Text is a sequence of one-character strings.  A rendered body and a     *)
(* request body are sequences of tokens: the literal fragments of the      *)
(* source's templates are single tokens, interpolated values contribute    *)
(* their characters.  JavaScript objects are functions from keys to        *)
(* values; an absent key is a key outside the DOMAIN.                      *)
(***************************************************************************)
EXTENDS Integers, Sequences, FiniteSets, TLC

\* ------------------------------------------------------------------ bounds
\* Longest service text a client submits.
MaxServiceLen == 2
\* Longest Messages list the provider returns.
MaxMessages == 1
\* Longest Errors list inside one returned message.
MaxErrors == 1

\* ------------------------------------------------------- JavaScript values
\* The value of an absent property / unset environment variable.
Undefined == <<"<undefined>">>
\* JSON null as a property value.
Null == <<"<null>">>

\* JavaScript truthiness of a text-or-missing value: undefined, null and the
\* empty string are falsy.
Truthy(v) == v # Undefined /\ v # Null /\ v # <<>>

\* a || b
OrElse(a, b) == IF Truthy(a) THEN a ELSE b

\* seq contains sub as a contiguous run.
Contains(seq, sub) ==
    \E i \in 1..(Len(seq) - Len(sub) + 1) : SubSeq(seq, i, i + Len(sub) - 1) = sub

\* All sequences over S of length 0..n.
RECURSIVE SeqsUpTo(_, _)
SeqsUpTo(S, n) ==
    IF n = 0 THEN {<<>>}
    ELSE LET shorter == SeqsUpTo(S, n - 1)
         IN  shorter \cup {Append(s, x) : s \in {t \in shorter : Len(t) = n - 1}, x \in S}

\* ------------------------------------------------------------- JSON.parse
\* The values of the subset of JSON the model's requests use: null, a string,
\* or an object whose members are strings or null.
JsonNull == [kind |-> "null"]
JsonString(s) == [kind |-> "string", str |-> s]
JsonObject(o) == [kind |-> "object", obj |-> o]
EmptyObject == [k \in {} |-> <<>>]

ParseOk(v, next) == [ok |-> TRUE, value |-> v, next |-> next]
ParseFail(msg) == [ok |-> FALSE, message |-> msg]

UnexpectedEnd == "Unexpected end of JSON input"
UnexpectedToken == "Unexpected token in JSON"
UnterminatedString == "Unterminated string in JSON"

\* The position of the first quote at or after i, or 0.
RECURSIVE ClosingQuote(_, _)
ClosingQuote(toks, i) ==
    IF i > Len(toks) THEN 0
    ELSE IF toks[i] = "\"" THEN i
    ELSE ClosingQuote(toks, i + 1)

\* The string literal whose opening quote is toks[i] and whose closing quote
\* is toks[j] (j = 0: there is none).
StringBetween(toks, i, j) ==
    IF j = 0 THEN ParseFail(UnterminatedString)
    ELSE ParseOk(SubSeq(toks, i + 1, j - 1), j + 1)

\* A string literal starting at the quote toks[i].
ParseString(toks, i) == StringBetween(toks, i, ClosingQuote(toks, i + 1))

\* A member value (string or null) starting at toks[i].
ParseScalar(toks, i) ==
    IF i > Len(toks) THEN ParseFail(UnexpectedEnd)
    ELSE IF toks[i] = "null" THEN ParseOk(Null, i + 1)
    ELSE IF toks[i] = "\"" THEN ParseString(toks, i)
    ELSE ParseFail(UnexpectedToken)

\* The object o with o[key] = value (a repeated key keeps its last value).
Put(o, key, value) ==
    [x \in DOMAIN o \cup {key} |-> IF x = key THEN value ELSE o[x]]

\* The members of an object, toks[i] being the first token of a member; acc
\* is the object read so far.
RECURSIVE ParseMembers(_, _, _)

\* After a member: the end of the object, or a comma and the next member.
AfterMember(toks, i, acc) ==
    IF i > Len(toks) THEN ParseFail(UnexpectedEnd)
    ELSE IF toks[i] = "}" THEN ParseOk(JsonObject(acc), i + 1)
    ELSE IF toks[i] = "," THEN ParseMembers(toks, i + 1, acc)
    ELSE ParseFail(UnexpectedToken)

\* After a member's key and colon: v is its parsed value.
AfterColon(toks, acc, key, v) ==
    IF ~v.ok THEN v ELSE AfterMember(toks, v.next, Put(acc, key, v.value))

\* After a member's key k: the colon and the value.
AfterKey(toks, acc, k) ==
    IF ~k.ok THEN k
    ELSE IF k.next > Len(toks) THEN ParseFail(UnexpectedEnd)
    ELSE IF toks[k.next] # ":" THEN ParseFail(UnexpectedToken)
    ELSE AfterColon(toks, acc, k.value, ParseScalar(toks, k.next + 1))

ParseMembers(toks, i, acc) ==
    IF i > Len(toks) THEN ParseFail(UnexpectedEnd)
    ELSE IF toks[i] # "\"" THEN ParseFail(UnexpectedToken)
    ELSE AfterKey(toks, acc, ParseString(toks, i))

\* s as a JSON value, s being a parsed string literal or its failure.
StringValue(s) == IF s.ok THEN ParseOk(JsonString(s.value), s.next) ELSE s

\* A JSON value starting at toks[i].
ParseValue(toks, i) ==
    IF i > Len(toks) THEN ParseFail(UnexpectedEnd)
    ELSE IF toks[i] = "null" THEN ParseOk(JsonNull, i + 1)
    ELSE IF toks[i] = "\"" THEN StringValue(ParseString(toks, i))
    ELSE IF toks[i] = "{" THEN
        IF i + 1 > Len(toks) THEN ParseFail(UnexpectedEnd)
        ELSE IF toks[i + 1] = "}" THEN ParseOk(JsonObject(EmptyObject), i + 2)
        ELSE ParseMembers(toks, i + 1, EmptyObject)
    ELSE ParseFail(UnexpectedToken)

\* v, the value at the start of toks, if nothing follows it.
WholeText(toks, v) ==
    IF ~v.ok THEN v
    ELSE IF v.next # Len(toks) + 1 THEN ParseFail(UnexpectedToken)
    ELSE v

\* JSON.parse(body): the value, or the SyntaxError's message.
JSONparse(toks) == WholeText(toks, ParseValue(toks, 1))

\* ------------------------------------------------- the client's requests
\* What the form's client-side code puts on the wire: JSON.stringify of an
\* object of the form's fields, an undefined field being left out.
MemberToks(k, v) ==
    <<"\"", k, "\"", ":">> \o (IF v = Null THEN <<"null">> ELSE <<"\"">> \o v \o <<"\"">>)

RECURSIVE JoinMembers(_)
JoinMembers(ms) ==
    IF ms = <<>> THEN <<>>
    ELSE IF Len(ms) = 1 THEN MemberToks(ms[1][1], ms[1][2])
    ELSE MemberToks(ms[1][1], ms[1][2]) \o <<",">> \o JoinMembers(Tail(ms))

Stringify(form) ==
    LET all == << <<"name", form.name>>, <<"email", form.email>>, <<"phone", form.phone>>,
                  <<"service", form.service>>, <<"event-date", form.eventDate>>,
                  <<"message", form.message>>, <<"allergies", form.allergies>> >>
        present == SelectSeq(all, LAMBDA m : m[2] # Undefined)
    IN  <<"{">> \o JoinMembers(present) \o <<"}">>

\* The forms a client submits: every required field absent, empty or filled
\* (name also null), every optional field absent, empty or filled, the
\* service text of every length up to the bound.
Forms ==
    {[name |-> n, email |-> e, phone |-> p, service |-> s, eventDate |-> d,
      message |-> m, allergies |-> a] :
        n \in {Undefined, Null, <<>>, <<"A">>},
        e \in {Undefined, <<>>, <<"e">>},
        p \in {Undefined, <<>>, <<"5">>},
        s \in {Undefined} \cup SeqsUpTo({"w"}, MaxServiceLen),
        d \in {Undefined, <<>>, <<"d">>},
        m \in {Undefined, <<>>, <<"m">>},
        a \in {Undefined, <<>>, <<"n">>}}

\* Bodies that are no form: the empty body, JSON that is no object, and
\* text that is no JSON.
RawBodies ==
    {<<>>, <<"null">>, <<"\"", "A", "\"">>, <<"{", "}">>,
     <<"{">>, <<"}">>, <<"x">>, <<"null", "null">>, <<"\"", "A">>,
     <<"{", "\"", "name", "\"", ":", "\"", "A", "\"">>,
     <<"{", "\"", "name", "\"", ":", "\"", "A", "\"", ",", "}">>,
     <<"{", "\"", "name", "\"", "\"", "A", "\"", "}">>}

\* The message of the error request.text() rejects with when the body stream
\* cannot be read.
BodyUnusable == "Body is unusable"

\* The requests the framework hands to POST.
Requests ==
    {[kind |-> "form", form |-> f] : f \in Forms}
    \cup {[kind |-> "raw", body |-> b] : b \in RawBodies}
    \cup {[kind |-> "unreadable", message |-> BodyUnusable]}

\* What request.text() settles with.
RequestText(req) ==
    IF req.kind = "unreadable" THEN [settled |-> "rejected", message |-> req.message]
    ELSE IF req.kind = "form" THEN [settled |-> "resolved", text |-> Stringify(req.form)]
    ELSE [settled |-> "resolved", text |-> req.body]

\* The process environments: each credential unset, empty or set.
Environments ==
    [MJ_APIKEY_PUBLIC : {Undefined, <<>>, <<"p", "k">>},
     MJ_APIKEY_PRIVATE : {Undefined, <<>>, <<"s", "k">>}]

\* ---------------------------------------------------------- the handler
VARIABLES
    env,             \* import.meta.env, the process environment
    request,         \* the request POST was invoked with
    pc,              \* where the handler is: start, awaitText, awaitFetch, awaitJson, done
    bodyReads,       \* the number of calls of request.text()
    data,            \* the local data
    fields,          \* the locals destructured from data
    htmlContent,     \* the local htmlContent
    textContent,     \* the local textContent
    calls,           \* the outbound fetch() calls, in order
    fetchOutcome,    \* what fetch() settled with
    mailjetResponse, \* the local mailjetResponse
    jsonOutcome,     \* what mailjetResponse.json() settled with
    result,          \* the local result
    responses,       \* the responses POST returned
    uncaught         \* an exception left POST

vars == <<env, request, pc, bodyReads, data, fields, htmlContent, textContent, calls,
          fetchOutcome, mailjetResponse, jsonOutcome, result, responses, uncaught>>

\* new Response(JSON.stringify(body), {status})
Response(status, body) == [status |-> status, body |-> body]

Return(resp) == [kind |-> "return", response |-> resp]
Throw(msg) == [kind |-> "throw", message |-> msg]

\* The check with the private key forgotten: !apiKey
PublicKeyMissing(e) == ~Truthy(e.MJ_APIKEY_PUBLIC)

\* !apiKey || !apiSecret
KeysMissing(e) == ~Truthy(e.MJ_APIKEY_PUBLIC) \/ ~Truthy(e.MJ_APIKEY_PRIVATE)

NotConfigured ==
    Response(500, [error |-> "Email service not configured",
                   details |-> "Mailjet API keys are missing. Please configure MJ_APIKEY_PUBLIC and MJ_APIKEY_PRIVATE environment variables."])

EmptyBody == Response(400, [error |-> "Request body is empty"])

\* The inner catch without the parser's message.
InvalidJsonWithoutDetails(msg) == Response(400, [error |-> "Invalid JSON in request body"])

\* The inner catch: parseError.message of an Error.
InvalidJson(msg) == Response(400, [error |-> "Invalid JSON in request body", details |-> msg])

MissingFields == Response(400, [error |-> "Missing required fields"])

Sent == Response(200, [success |-> TRUE, message |-> "Email sent successfully"])

\* The outer catch with the exception's message dropped.
FailureWithoutMessage(msg) ==
    Response(500, [error |-> "Failed to send email", details |-> "Unknown error"])

\* The outer catch: error.message || "Unknown error".
Failure(msg) ==
    Response(500, [error |-> "Failed to send email",
                   details |-> IF msg # "" THEN msg ELSE "Unknown error"])

\* The handler without its outer catch.
NoCatch(o) == o

\* try { ... } catch (error) of the whole handler: what a step of the body
\* ends with, a throw turned into the failure response.
OuterCatch(o) == IF o.kind = "throw" THEN Return(Failure(o.message)) ELSE o

\* The inner try: the body text read and parsed.  Ends with a response, or
\* goes on with the parsed data.
InnerTry(read) ==
    IF read.settled = "rejected" THEN Return(InvalidJson(read.message))
    ELSE IF read.text = <<>> THEN Return(EmptyBody)
    ELSE LET p == JSONparse(read.text)
         IN  IF p.ok THEN [kind |-> "data", data |-> p.value]
             ELSE Return(InvalidJson(p.message))

\* data[key] of a value that is not null.
Get(d, key) ==
    IF d.kind = "object" /\ <<key>> \in DOMAIN d.obj THEN d.obj[<<key>>] ELSE Undefined

NoFields ==
    [name |-> Undefined, email |-> Undefined, phone |-> Undefined, service |-> Undefined,
     eventDate |-> Undefined, message |-> Undefined, allergies |-> Undefined]

CannotDestructure == "Cannot destructure property 'name' of 'data' as it is null."

\* const { name, email, phone, service, "event-date": eventDate, message, allergies } = data
Destructure(d) ==
    IF d.kind = "null" THEN Throw(CannotDestructure)
    ELSE [kind |-> "fields",
          fields |-> [name |-> Get(d, "name"), email |-> Get(d, "email"),
                      phone |-> Get(d, "phone"), service |-> Get(d, "service"),
                      eventDate |-> Get(d, "event-date"), message |-> Get(d, "message"),
                      allergies |-> Get(d, "allergies")]]

\* The validation with the service forgotten: !name || !email
NameOrEmailMissing(f) == ~Truthy(f.name) \/ ~Truthy(f.email)

\* !name || !email || !service
RequiredMissing(f) == ~Truthy(f.name) \/ ~Truthy(f.email) \/ ~Truthy(f.service)

NoMessage == <<"No message provided">>
HtmlPhone == "<p><strong>Phone:</strong> "
HtmlEventDate == "<p><strong>Event Date:</strong> "
HtmlAllergies == "<p><strong>Allergies/Dietary Requirements:</strong></p><p>"
TextPhone == "Phone: "
TextEventDate == "Event Date: "
TextAllergies == "Allergies/Dietary Requirements:\n"

\* The section rendered unless the value is the empty string: v !== "" ? ... : ""
HtmlSectionUnlessEmpty(label, v) == IF v # <<>> THEN <<label>> \o v \o <<"</p>">> ELSE <<>>

\* An optional section of htmlContent: ${v ? `<label>${v}</p>` : ""}
HtmlSection(label, v) == IF Truthy(v) THEN <<label>> \o v \o <<"</p>">> ELSE <<>>

\* An optional section of textContent: ${v ? `<label>${v}` : ""}
TextSection(label, v) == IF Truthy(v) THEN <<label>> \o v ELSE <<>>

\* The template of htmlContent (indentation left out of the literal tokens).
HtmlContent(f) ==
    <<"<h2>New Contact Form Submission</h2>", "<p><strong>Name:</strong> ">> \o f.name
    \o <<"</p>", "<p><strong>Email:</strong> ">> \o f.email \o <<"</p>">>
    \o HtmlSection(HtmlPhone, f.phone)
    \o <<"<p><strong>Service Type:</strong> ">> \o f.service \o <<"</p>">>
    \o HtmlSection(HtmlEventDate, f.eventDate)
    \o <<"<p><strong>Message:</strong></p>", "<p>">> \o OrElse(f.message, NoMessage) \o <<"</p>">>
    \o HtmlSection(HtmlAllergies, f.allergies)

\* The template of textContent.
TextContent(f) ==
    <<"New Contact Form Submission", "\n", "Name: ">> \o f.name
    \o <<"\n", "Email: ">> \o f.email \o <<"\n">>
    \o TextSection(TextPhone, f.phone)
    \o <<"\n", "Service Type: ">> \o f.service \o <<"\n">>
    \o TextSection(TextEventDate, f.eventDate)
    \o <<"\n", "Message:", "\n">> \o OrElse(f.message, NoMessage) \o <<"\n">>
    \o TextSection(TextAllergies, f.allergies)

\* The subject with the submitter's name in the place of the service.
SubjectWithName(f) == <<"New Contact Form Submission - ">> \o f.name

\* Subject: `New Contact Form Submission - ${service}`
Subject(f) == <<"New Contact Form Submission - ">> \o f.service

\* The fetch() call: its URL and, of its JSON payload, the subject, the two
\* bodies and the reply-to identity.
MailjetCall(f, html, text) ==
    [url |-> "https://api.mailjet.com/v3.1/send",
     Subject |-> Subject(f),
     TextPart |-> text,
     HTMLPart |-> html,
     ReplyTo |-> [Email |-> f.email, Name |-> f.name]]

NoData == [kind |-> "undefined"]
NoLocals == [data |-> NoData, fields |-> NoFields, htmlContent |-> <<>>, textContent |-> <<>>]

\* From the settling of request.text() to the call of fetch(): how the step
\* ends (a response, a throw, or the fetch call) and the locals it assigned.
AfterText(read) ==
    LET t == InnerTry(read)
    IN  IF t.kind = "return" THEN [step |-> t, locals |-> NoLocals]
        ELSE LET d == Destructure(t.data)
                 l1 == [NoLocals EXCEPT !.data = t.data]
             IN  IF d.kind = "throw" THEN [step |-> d, locals |-> l1]
                 ELSE IF RequiredMissing(d.fields)
                      THEN [step |-> Return(MissingFields),
                            locals |-> [l1 EXCEPT !.fields = d.fields]]
                      ELSE LET html == HtmlContent(d.fields)
                               text == TextContent(d.fields)
                           IN  [step |-> [kind |-> "fetch",
                                          call |-> MailjetCall(d.fields, html, text)],
                                locals |-> [l1 EXCEPT !.fields = d.fields,
                                                      !.htmlContent = html,
                                                      !.textContent = text]]

\* ------------------------------------------------------- the mail provider
TopLevelError == "API key authentication/authorization failure"
PerMessageError == "\"recipient\" is not a valid email address"
FetchFailed == "fetch failed"
NotJsonResponse == "Unexpected token < in JSON at position 0"

\* What fetch() settles with: a response of a success or non-success status,
\* or a network error (one of them with an empty message).
FetchOutcomes ==
    {[settled |-> "resolved", ok |-> b] : b \in BOOLEAN}
    \cup {[settled |-> "rejected", message |-> m] : m \in {FetchFailed, ""}}

\* An object with ErrorMessage e (when hasE) and Messages m (when hasM).
ResultObject(hasE, e, hasM, m) ==
    [k \in (IF hasE THEN {"ErrorMessage"} ELSE {}) \cup (IF hasM THEN {"Messages"} ELSE {}) |->
        IF k = "ErrorMessage" THEN e ELSE m]

ErrorObjects == {EmptyObject} \cup {[ErrorMessage |-> m] : m \in {"", PerMessageError}}
MessageObjects ==
    {EmptyObject} \cup {[Errors |-> es] : es \in SeqsUpTo(ErrorObjects, MaxErrors)}
ResultObjects ==
    {ResultObject(hasE, e, hasM, m) :
        hasE \in BOOLEAN, e \in {"", TopLevelError},
        hasM \in BOOLEAN, m \in SeqsUpTo(MessageObjects, MaxMessages)}

\* What mailjetResponse.json() settles with: JSON null, an object, or the
\* SyntaxError of a body that is no JSON.
JsonOutcomes ==
    {[settled |-> "resolved", value |-> JsonNull]}
    \cup {[settled |-> "resolved", value |-> JsonObject(r)] : r \in ResultObjects}
    \cup {[settled |-> "rejected", message |-> NotJsonResponse]}

\* The success test off by one: result.Messages.length > 1
SucceededMoreThanOne(ok, r) == ok /\ "Messages" \in DOMAIN r /\ Len(r.Messages) > 1

\* mailjetResponse.ok && result.Messages && result.Messages.length > 0
Succeeded(ok, r) == ok /\ "Messages" \in DOMAIN r /\ Len(r.Messages) > 0

\* A string that is undefined.
NoString == "<undefined>"
TruthyString(s) == s # NoString /\ s # ""

\* result.Messages?.[0]?.Errors?.[0]?.ErrorMessage
FirstMessageError(r) ==
    IF "Messages" \notin DOMAIN r THEN NoString
    ELSE IF Len(r.Messages) = 0 THEN NoString
    ELSE LET m == r.Messages[1]
         IN  IF "Errors" \notin DOMAIN m THEN NoString
             ELSE IF Len(m.Errors) = 0 THEN NoString
             ELSE IF "ErrorMessage" \notin DOMAIN m.Errors[1] THEN NoString
             ELSE m.Errors[1].ErrorMessage

GenericError == "Failed to send email"

\* The diagnostic with the per-message error tried before the top-level one.
ErrorMsgPerMessageFirst(r) ==
    LET top == IF "ErrorMessage" \in DOMAIN r THEN r.ErrorMessage ELSE NoString
    IN  IF TruthyString(FirstMessageError(r)) THEN FirstMessageError(r)
        ELSE IF TruthyString(top) THEN top
        ELSE GenericError

\* result.ErrorMessage || result.Messages?.[0]?.Errors?.[0]?.ErrorMessage || "Failed to send email"
ErrorMsg(r) ==
    LET top == IF "ErrorMessage" \in DOMAIN r THEN r.ErrorMessage ELSE NoString
    IN  IF TruthyString(top) THEN top
        ELSE IF TruthyString(FirstMessageError(r)) THEN FirstMessageError(r)
        ELSE GenericError

CannotReadMessages == "Cannot read properties of null (reading 'Messages')"
CannotReadErrorMessage == "Cannot read properties of null (reading 'ErrorMessage')"

\* From the settling of mailjetResponse.json() on: the if/else on the result.
Decide(ok, res) ==
    IF res.kind = "null"
    THEN Throw(IF ok THEN CannotReadMessages ELSE CannotReadErrorMessage)
    ELSE IF Succeeded(ok, res.obj) THEN Return(Sent)
    ELSE Throw(ErrorMsg(res.obj))

\* ----------------------------------------------------------------- actions
\* A call that has not settled (or was not made).
Pending == [settled |-> "pending"]

Init ==
    /\ env \in Environments
    /\ request \in Requests
    /\ pc = "start"
    /\ bodyReads = 0
    /\ data = NoData
    /\ fields = NoFields
    /\ htmlContent = <<>>
    /\ textContent = <<>>
    /\ calls = <<>>
    /\ fetchOutcome = Pending
    /\ mailjetResponse = [received |-> FALSE, ok |-> FALSE]
    /\ jsonOutcome = Pending
    /\ result = NoData
    /\ responses = <<>>
    /\ uncaught = FALSE

\* The handler ends: with the response it returns, or with an exception
\* nothing caught.
Finish(o) ==
    /\ pc' = "done"
    /\ responses' = IF o.kind = "return" THEN Append(responses, o.response) ELSE responses
    /\ uncaught' = (uncaught \/ o.kind = "throw")

\* Lines 7-28: the credentials check, then the call of request.text().
Start ==
    /\ pc = "start"
    /\ LET o == OuterCatch(IF KeysMissing(env) THEN Return(NotConfigured)
                           ELSE [kind |-> "await"])
       IN  IF o.kind = "await"
           THEN /\ pc' = "awaitText"
                /\ bodyReads' = bodyReads + 1
                /\ UNCHANGED <<responses, uncaught>>
           ELSE /\ Finish(o)
                /\ UNCHANGED bodyReads
    /\ UNCHANGED <<env, request, data, fields, htmlContent, textContent, calls,
                   fetchOutcome, mailjetResponse, jsonOutcome, result>>

\* Lines 28-138: request.text() settles; parse, validate, render, call fetch().
TextSettled ==
    /\ pc = "awaitText"
    /\ LET a == AfterText(RequestText(request))
           o == OuterCatch(a.step)
       IN  /\ data' = a.locals.data
           /\ fields' = a.locals.fields
           /\ htmlContent' = a.locals.htmlContent
           /\ textContent' = a.locals.textContent
           /\ IF o.kind = "fetch"
              THEN /\ calls' = Append(calls, o.call)
                   /\ pc' = "awaitFetch"
                   /\ UNCHANGED <<responses, uncaught>>
              ELSE /\ Finish(o)
                   /\ UNCHANGED calls
    /\ UNCHANGED <<env, request, bodyReads, fetchOutcome, mailjetResponse, jsonOutcome,
                   result>>

\* Lines 98-140: fetch() settles; call mailjetResponse.json().
FetchSettled(fo) ==
    /\ pc = "awaitFetch"
    /\ fetchOutcome' = fo
    /\ IF fo.settled = "resolved"
       THEN /\ mailjetResponse' = [received |-> TRUE, ok |-> fo.ok]
            /\ pc' = "awaitJson"
            /\ UNCHANGED <<responses, uncaught>>
       ELSE /\ Finish(OuterCatch(Throw(fo.message)))
            /\ UNCHANGED mailjetResponse
    /\ UNCHANGED <<env, request, bodyReads, data, fields, htmlContent, textContent, calls,
                   jsonOutcome, result>>

\* Lines 140-173: mailjetResponse.json() settles; answer.
JsonSettled(jo) ==
    /\ pc = "awaitJson"
    /\ jsonOutcome' = jo
    /\ IF jo.settled = "resolved"
       THEN /\ result' = jo.value
            /\ Finish(OuterCatch(Decide(mailjetResponse.ok, jo.value)))
       ELSE /\ Finish(OuterCatch(Throw(jo.message)))
            /\ UNCHANGED result
    /\ UNCHANGED <<env, request, bodyReads, data, fields, htmlContent, textContent, calls,
                   fetchOutcome, mailjetResponse>>

Next ==
    \/ Start
    \/ TextSettled
    \/ \E fo \in FetchOutcomes : FetchSettled(fo)
    \/ \E jo \in JsonOutcomes : JsonSettled(jo)

Spec == Init /\ [][Next]_vars

\* -------------------------------------------------------------- properties
\* The terms of the properties, read off the environment, the request and
\* what the provider's call settled with.
Done == pc = "done"

\* POST returned one response, of this status.
Responded(status) == Len(responses) = 1 /\ responses[1].status = status

\* The response's body has the details d.
HasDetails(d) ==
    /\ Len(responses) = 1
    /\ "details" \in DOMAIN responses[1].body
    /\ responses[1].body.details = d

\* A value that is absent or empty.
Missing(v) == v \in {Undefined, Null, <<>>}

CredentialsSet == ~Missing(env.MJ_APIKEY_PUBLIC) /\ ~Missing(env.MJ_APIKEY_PRIVATE)

\* The request is a form with name, email and service filled in.
WellFormed ==
    /\ request.kind = "form"
    /\ ~Missing(request.form.name)
    /\ ~Missing(request.form.email)
    /\ ~Missing(request.form.service)

\* The request is JSON in which name, email or service is absent or empty.
MissingRequired ==
    \/ /\ request.kind = "form"
       /\ \/ Missing(request.form.name)
          \/ Missing(request.form.email)
          \/ Missing(request.form.service)
    \/ /\ request.kind = "raw"
       /\ request.body \in {<<"null">>, <<"{", "}">>, <<"\"", "A", "\"">>}

\* The bodies that are no JSON, and the parser's diagnostic of each.
NotJsonBodies ==
    {<<"{">>, <<"}">>, <<"x">>, <<"null", "null">>, <<"\"", "A">>,
     <<"{", "\"", "name", "\"", ":", "\"", "A", "\"">>,
     <<"{", "\"", "name", "\"", ":", "\"", "A", "\"", ",", "}">>,
     <<"{", "\"", "name", "\"", "\"", "A", "\"", "}">>}

DiagnosticOf(b) ==
    IF b \in {<<"{">>, <<"{", "\"", "name", "\"", ":", "\"", "A", "\"">>}
    THEN "Unexpected end of JSON input"
    ELSE IF b = <<"\"", "A">> THEN "Unterminated string in JSON"
    ELSE "Unexpected token in JSON"

NotJson == request.kind = "raw" /\ request.body \in NotJsonBodies

\* The locals of the steps after the body's parsing are unassigned and no
\* call went out.
BeforeValidation == fields = NoFields /\ htmlContent = <<>> /\ calls = <<>>

\* seq has the token tok.
HasToken(seq, tok) == \E i \in 1..Len(seq) : seq[i] = tok

\* C1: with a credential unset or empty, POST answers 500 whatever the
\* request, without a call of request.text() and without an outbound call.
C1_MissingCredentialsAnswer500 ==
    ~CredentialsSet =>
        /\ bodyReads = 0
        /\ calls = <<>>
        /\ pc \in {"start", "done"}
        /\ Done => Responded(500)

C1_Witness == Done /\ ~CredentialsSet /\ WellFormed /\ Responded(500)

\* C2: with the credentials set, a submission in which name, email or
\* service is absent or empty is answered 400 with an error field.
C2_MissingRequiredAnswers400 ==
    (Done /\ CredentialsSet /\ MissingRequired) =>
        /\ Responded(400)
        /\ "error" \in DOMAIN responses[1].body

\* C3: a provider response of a success status and a non-empty Messages
\* list is answered exactly { success: true, message: "Email sent
\* successfully" } with status 200.
ProviderSucceeded ==
    /\ fetchOutcome.settled = "resolved"
    /\ fetchOutcome.ok
    /\ jsonOutcome.settled = "resolved"
    /\ jsonOutcome.value.kind = "object"
    /\ "Messages" \in DOMAIN jsonOutcome.value.obj
    /\ Len(jsonOutcome.value.obj.Messages) > 0

C3_SuccessAnswer ==
    (Done /\ ProviderSucceeded) =>
        responses = <<[status |-> 200,
                       body |-> [success |-> TRUE, message |-> "Email sent successfully"]]>>

C3_Witness ==
    /\ Done
    /\ ProviderSucceeded
    /\ "Errors" \in DOMAIN jsonOutcome.value.obj.Messages[1]
    /\ Responded(200)

\* The provider's response was read and it is a JSON object r.
ProviderObject == jsonOutcome.settled = "resolved" /\ jsonOutcome.value.kind = "object"

\* r has no Messages, or an empty list.
NoMessages(r) == "Messages" \notin DOMAIN r \/ Len(r.Messages) = 0

\* r.Messages[0].Errors[0].ErrorMessage is present.
HasPerMessageError(r) ==
    /\ "Messages" \in DOMAIN r
    /\ Len(r.Messages) > 0
    /\ "Errors" \in DOMAIN r.Messages[1]
    /\ Len(r.Messages[1].Errors) > 0
    /\ "ErrorMessage" \in DOMAIN r.Messages[1].Errors[1]

\* The diagnostic as C4 words it: the first error message that is present.
FirstPresent(r) ==
    IF "ErrorMessage" \in DOMAIN r THEN r.ErrorMessage
    ELSE IF HasPerMessageError(r) THEN r.Messages[1].Errors[1].ErrorMessage
    ELSE "Failed to send email"

\* The diagnostic: the first error message that is present and not empty.
FirstNonEmpty(r) ==
    IF "ErrorMessage" \in DOMAIN r /\ r.ErrorMessage # "" THEN r.ErrorMessage
    ELSE IF HasPerMessageError(r) /\ r.Messages[1].Errors[1].ErrorMessage # ""
         THEN r.Messages[1].Errors[1].ErrorMessage
    ELSE "Failed to send email"

MessageOrUnknown(m) == IF m = "" THEN "Unknown error" ELSE m

\* C5 as stated: an exception raised while the body is read and parsed, the
\* fields are taken from it, or the provider is called and its response
\* read, is answered 500 with the exception's message as details.
C5_AsStated ==
    Done =>
        /\ (CredentialsSet /\ request.kind = "unreadable") =>
               (Responded(500) /\ HasDetails(request.message))
        /\ (CredentialsSet /\ NotJson) =>
               (Responded(500) /\ HasDetails(DiagnosticOf(request.body)))
        /\ (CredentialsSet /\ request.kind = "raw" /\ request.body = <<"null">>) =>
               (Responded(500) /\ HasDetails(CannotDestructure))
        /\ fetchOutcome.settled = "rejected" =>
               (Responded(500) /\ HasDetails(fetchOutcome.message))
        /\ jsonOutcome.settled = "rejected" =>
               (Responded(500) /\ HasDetails(jsonOutcome.message))

\* C5, amended: an exception raised while the body is read or parsed is
\* caught by the inner handler and answered 400 with the exception's message
\* as details; an exception raised after that (taking the fields from null
\* data, the provider call, reading the provider's JSON) is caught at the
\* top level and answered 500 with the exception's message as details,
\* "Unknown error" standing in for an empty message.
C5_ExceptionsAnswered ==
    Done =>
        /\ (CredentialsSet /\ request.kind = "unreadable") =>
               (Responded(400) /\ HasDetails(request.message))
        /\ (CredentialsSet /\ NotJson) =>
               (Responded(400) /\ HasDetails(DiagnosticOf(request.body)))
        /\ (CredentialsSet /\ request.kind = "raw" /\ request.body = <<"null">>) =>
               (Responded(500) /\ HasDetails(CannotDestructure))
        /\ fetchOutcome.settled = "rejected" =>
               (Responded(500) /\ HasDetails(MessageOrUnknown(fetchOutcome.message)))
        /\ jsonOutcome.settled = "rejected" =>
               (Responded(500) /\ HasDetails(MessageOrUnknown(jsonOutcome.message)))

C5_Witness ==
    /\ Done
    /\ fetchOutcome.settled = "rejected"
    /\ fetchOutcome.message = "fetch failed"
    /\ HasDetails("fetch failed")

\* C6: with the credentials set, an empty body is answered 400, and a body
\* that is no JSON is answered 400 with the parser's diagnostic as details,
\* both before the fields are validated and before any outbound call.
C6_BodyChecks ==
    (Done /\ CredentialsSet /\ request.kind = "raw") =>
        /\ request.body = <<>> =>
               /\ responses = <<[status |-> 400, body |-> [error |-> "Request body is empty"]]>>
               /\ BeforeValidation
        /\ request.body \in NotJsonBodies =>
               /\ Responded(400)
               /\ HasDetails(DiagnosticOf(request.body))
               /\ responses[1].body.error # "Missing required fields"
               /\ BeforeValidation

C6_Witness ==
    /\ Done
    /\ CredentialsSet
    /\ request.kind = "raw"
    /\ request.body = <<"{", "\"", "name", "\"", ":", "\"", "A", "\"">>
    /\ HasDetails("Unexpected end of JSON input")

\* C7: every invocation ends by returning exactly one response, of status
\* 200, 400 or 500: no exception leaves the handler, no response is returned
\* before the end nor a second one, and until its end the handler is at its
\* start or at one of its three awaits, each of which goes on when it settles.
C7_ExactlyOneResponse ==
    /\ ~uncaught
    /\ pc \in {"start", "awaitText", "awaitFetch", "awaitJson", "done"}
    /\ Len(responses) = (IF Done THEN 1 ELSE 0)
    /\ \A i \in 1..Len(responses) : responses[i].status \in {200, 400, 500}

C7_Witness ==
    /\ Done
    /\ jsonOutcome.settled = "rejected"
    /\ Responded(500)

\* C8: an invocation makes at most one outbound call: none before the
\* checks, one once the credentials, body, parse and required-field checks
\* have passed, none when one of them fails, and no second one after a
\* provider failure or a network error.
C8_AtMostOneCall ==
    /\ Len(calls) <= 1
    /\ pc \in {"start", "awaitText"} => calls = <<>>
    /\ pc \in {"awaitFetch", "awaitJson"} => Len(calls) = 1
    /\ Done => (Len(calls) = 1 <=> (CredentialsSet /\ WellFormed))

C8_Witness ==
    /\ Done
    /\ Len(calls) = 1
    /\ fetchOutcome.settled = "resolved"
    /\ ~fetchOutcome.ok
    /\ Responded(500)

\* The form has name, email and service and none of the optional fields.
OnlyRequired ==
    /\ WellFormed
    /\ request.form.phone = Undefined
    /\ request.form.eventDate = Undefined
    /\ request.form.message = Undefined
    /\ request.form.allergies = Undefined

\* C9: for a well-formed submission without phone, event-date, message and
\* allergies, the HTML and the plaintext body both hold the placeholder "No
\* message provided" as the message and neither has a Phone, Event Date or
\* Allergies/Dietary Requirements section.
C9_OnlyRequiredRendering ==
    (CredentialsSet /\ OnlyRequired /\ pc \notin {"start", "awaitText"}) =>
        /\ Len(calls) = 1
        /\ calls[1].HTMLPart = htmlContent
        /\ calls[1].TextPart = textContent
        /\ Contains(htmlContent, <<"<p><strong>Message:</strong></p>", "<p>",
                                   "No message provided", "</p>">>)
        /\ Contains(textContent, <<"Message:", "\n", "No message provided", "\n">>)
        /\ \A label \in {"<p><strong>Phone:</strong> ", "<p><strong>Event Date:</strong> ",
                         "<p><strong>Allergies/Dietary Requirements:</strong></p><p>"} :
               ~HasToken(htmlContent, label)
        /\ \A label \in {"Phone: ", "Event Date: ", "Allergies/Dietary Requirements:\n"} :
               ~HasToken(textContent, label)

C9_Witness == CredentialsSet /\ OnlyRequired /\ Done /\ Len(calls) = 1

\* C10: for every submission that passes validation, the submitted service
\* text stands verbatim in the Subject ("New Contact Form Submission -
\* <service>"), in the HTML body and in the plaintext body sent out.
C10_ServiceVerbatim ==
    (CredentialsSet /\ WellFormed /\ pc \notin {"start", "awaitText"}) =>
        /\ Len(calls) = 1
        /\ calls[1].Subject = <<"New Contact Form Submission - ">> \o request.form.service
        /\ Contains(calls[1].HTMLPart,
                    <<"<p><strong>Service Type:</strong> ">> \o request.form.service \o <<"</p>">>)
        /\ Contains(calls[1].TextPart,
                    <<"Service Type: ">> \o request.form.service \o <<"\n">>)

C10_Witness ==
    /\ CredentialsSet
    /\ WellFormed
    /\ request.form.service = <<"w", "w">>
    /\ Len(calls) = 1

====
